---------------------------- MODULE Spec2Model ----------------------------
(***************************************************************************)
(* Shipping-profile data hooks and route loader of the vendor panel        *)
(* (hooks/api/shipping-profiles and the shipping-profile route loader),    *)
(* run against a query cache and a server.                                 *)
(*                                                                         *)
(* The cache is the query client the hooks import: one query per key,      *)
(* holding its data, its isInvalidated mark, its status and whether a      *)
(* fetch for it is in flight.  The server is the remote store of shipping  *)
(* profiles.  Mutations in flight are the POST / DELETE requests whose     *)
(* response has not resolved yet.                                          *)
(***************************************************************************)
EXTENDS Integers, Sequences, FiniteSets, Bags, TLC

\* Bound on the number of hook / loader / mutation invocations of a run.
MaxOps == 3

Undefined == "undefined"
Missing   == "missing"
Ids       == {"sp_1", "sp_2"}
Queries   == {"qa"}
QueryArgs == Queries \cup {Undefined}
Payloads  == {"p1"}
Values    == Payloads \cup {"v0"}

SHIPPING_PROFILE_QUERY_KEY == "shipping_profile"

(***************************************************************************)
(* lib/query-key-factory: the hierarchical keys of one resource.  A query  *)
(* that is undefined is left out of the key.                               *)
(***************************************************************************)
queryKeysFactory(globalKey) ==
  LET all     == <<globalKey>>
      lists   == all \o <<"list">>
      details == all \o <<"detail">>
  IN  [ all     |-> all,
        lists   |-> lists,
        list    |-> [q \in QueryArgs |->
                       IF q = Undefined THEN lists ELSE lists \o <<q>>],
        details |-> details,
        detail  |-> [id \in Ids |-> [q \in QueryArgs |->
                       IF q = Undefined THEN details \o <<id>>
                                        ELSE details \o <<id, q>>]] ]

shippingProfileQueryKeys == queryKeysFactory(SHIPPING_PROFILE_QUERY_KEY)

ListKeys   == {shippingProfileQueryKeys.list[q] : q \in QueryArgs}
DetailKeys == {shippingProfileQueryKeys.detail[id][q] : id \in Ids, q \in QueryArgs}
AllKeys    == ListKeys \cup DetailKeys

\* Array-prefix matching of query keys, as invalidateQueries({queryKey}) uses it.
IsPrefix(p, k) == Len(p) <= Len(k) /\ SubSeq(k, 1, Len(p)) = p

IsProperPrefix(p, k) == IsPrefix(p, k) /\ Len(p) < Len(k)

(***************************************************************************)
(* Options objects.  An options object is the record of the keys the       *)
(* caller set; a key set to undefined is still a key of the object.        *)
(* Options left out and the empty object spread alike: they add no key.    *)
(***************************************************************************)
NoOptions == [k \in {} |-> Undefined]

\* { ...base, ...options }: every key of options replaces the key of base.
Spread(base, options) ==
  [k \in DOMAIN base \cup DOMAIN options |->
     IF k \in DOMAIN options THEN options[k] ELSE base[k]]

(***************************************************************************)
(* Requests and responses.                                                 *)
(***************************************************************************)
NoRequest == [path |-> "none", query |-> Undefined]
ListPath  == "list"

NoItems == [id \in Ids |-> Missing]
NoData  == [kind |-> "none", id |-> "none", value |-> "none",
            query |-> Undefined, items |-> NoItems]

VARIABLES server, cache, mutations, loader, last, ops, store, section

\* The state of the shipping-profile hooks and loader, of EditStoreForm and
\* of ProductVariantSection.
hookVars == <<server, cache, mutations, loader, last, ops>>
vars     == <<server, cache, mutations, loader, last, ops, store, section>>

\* The response of GET /vendor/shipping-profiles/{id}?query
GetOneResponse(id, q) ==
  [kind |-> "one", id |-> id, value |-> server[id], query |-> q, items |-> NoItems]

\* The response of GET /vendor/shipping-profiles?query
GetListResponse(q) ==
  [kind |-> "page", id |-> "none", value |-> "none", query |-> q, items |-> server]

Response(req) ==
  IF req.path = ListPath THEN GetListResponse(req.query)
                         ELSE GetOneResponse(req.path, req.query)

\* A GET can be answered when its path names the list or an existing record.
Answerable(req) ==
  IF req.path = ListPath THEN TRUE ELSE server[req.path] # Missing

\* lib/query-client: the client's default options; failed requests are not
\* retried.
DefaultRetry == 0

AbsentQuery == [status |-> "absent", data |-> NoData, isInvalidated |-> FALSE,
                fetching |-> FALSE, active |-> FALSE, queryFn |-> NoRequest,
                retry |-> DefaultRetry, failureCount |-> 0]

\* What the step just taken did: the operation, its arguments, the number
\* of network requests it issued, the cache calls and callbacks it made in
\* order, what it handed back to its caller, the loader run it started.
NoLast == [kind |-> "init", id |-> "none", key |-> <<>>, query |-> Undefined,
           onSuccess |-> Undefined, payload |-> "none", raced |-> "none",
           reqs |-> 0, calls |-> <<>>, read |-> NoData, status |-> "none",
           run |-> 0, options |-> NoOptions]

\* The loader runs started so far, in call order.
NoRuns == <<>>

\* ProductVariantSection: the handleDelete calls made so far, in order.
NoCalls == <<>>

\* EditStoreForm as mounted for a seller with the given photo: media is
\* empty, the submit handler has not run, mutateAsync has not been called.
MountedForm(photo) ==
  [photo |-> photo, media |-> <<>>, mediaError |-> FALSE, runs |-> <<>>,
   mounted |-> TRUE, latest |-> 0,
   step |-> [name |-> "mount", files |-> <<>>, prev |-> <<>>]]

InitHooks ==
  /\ server = [id \in Ids |-> IF id = "sp_1" THEN "v0" ELSE Missing]
  /\ cache = [k \in AllKeys |-> AbsentQuery]
  /\ mutations = EmptyBag
  /\ loader = NoRuns
  /\ last = NoLast
  /\ ops = 0

Init ==
  /\ InitHooks
  /\ store = MountedForm(Undefined)
  /\ section = NoCalls

(***************************************************************************)
(* The query cache: useQuery, ensureQueryData, invalidateQueries and the   *)
(* resolution of a fetch.                                                  *)
(***************************************************************************)
HasData(k) == cache[k].data # NoData

\* The retry option a query or mutation runs with: its own, or the client's
\* default.
Retry(o) == IF "retry" \in DOMAIN o THEN o.retry ELSE DefaultRetry

\* The enabled option of an observer; an observer is enabled by default.
Enabled(o) == IF "enabled" \in DOMAIN o THEN o.enabled ELSE TRUE

\* A cached entry is fresh until it is invalidated.
IsStale(e) == e.data = NoData \/ e.isInvalidated

\* An observer with staleTime 0 takes any data for stale.
IsStaleFor(e, o) ==
  IsStale(e) \/ (IF "staleTime" \in DOMAIN o THEN o.staleTime = 0 ELSE FALSE)

\* An enabled observer fetches on mount when there is no data or the data
\* is stale.
FetchOnMount(e, o) == Enabled(o) /\ IsStaleFor(e, o)

\* Mounting an observer: the query is created if absent, a fetch is started
\* when the observer fetches on mount, and a fetch already in flight is
\* joined rather than repeated (it keeps the retry setting it started with).
MountObserver(e, o) ==
  [e EXCEPT !.status   = IF e.status = "absent"
                            \/ (FetchOnMount(e, o) /\ e.data = NoData /\ ~e.fetching)
                           THEN "pending" ELSE @,
            !.fetching = @ \/ FetchOnMount(e, o),
            !.active   = @ \/ Enabled(o),
            !.queryFn  = o.queryFn,
            !.retry    = IF e.fetching THEN @ ELSE Retry(o)]

MountRequests(e, o) == IF FetchOnMount(e, o) /\ ~e.fetching THEN 1 ELSE 0

\* invalidateQueries({queryKey}): every query of the cache whose key has
\* queryKey as a prefix is marked invalidated; those with an enabled
\* observer are refetched in the background.
invalidateQueries(c, queryKey) ==
  [k \in AllKeys |->
     IF c[k].status # "absent" /\ IsPrefix(queryKey, k)
       THEN [c[k] EXCEPT !.isInvalidated = TRUE,
                         !.fetching      = @ \/ c[k].active]
       ELSE c[k]]

\* Requests an invalidation issues: one per active matching query, unless a
\* first fetch (no data yet) is in flight, which is joined.
invalidateRequests(c, queryKey) ==
  Cardinality({k \in AllKeys :
                 /\ c[k].status # "absent"
                 /\ IsPrefix(queryKey, k)
                 /\ c[k].active
                 /\ ~(c[k].fetching /\ c[k].data = NoData)})

\* A success handler is the sequence of calls it makes; an onSuccess key can
\* also hold undefined.
InvalidateCall(queryKey) == [call |-> "invalidateQueries", queryKey |-> queryKey]
CallerOnSuccessCall      == [call |-> "options.onSuccess", queryKey |-> <<>>]

Handler(calls)   == [defined |-> TRUE, calls |-> calls]
UndefinedHandler == [defined |-> FALSE, calls |-> <<>>]
CallerOnSuccess  == Handler(<<CallerOnSuccessCall>>)

RECURSIVE RunCalls(_, _)
RunCalls(c, calls) ==
  IF calls = <<>> THEN [cache |-> c, reqs |-> 0]
  ELSE LET h  == Head(calls)
           c1 == IF h.call = "invalidateQueries"
                   THEN invalidateQueries(c, h.queryKey) ELSE c
           n1 == IF h.call = "invalidateQueries"
                   THEN invalidateRequests(c, h.queryKey) ELSE 0
           r  == RunCalls(c1, Tail(calls))
       IN  [cache |-> r.cache, reqs |-> n1 + r.reqs]

CallNames(calls) == [i \in 1..Len(calls) |-> calls[i].call]

(***************************************************************************)
(* hooks/api/shipping-profiles: the query hooks.  Each hands useQuery the  *)
(* object { queryFn, queryKey, ...options }.                               *)
(***************************************************************************)
\* The options a caller mounts a query hook with: none, or one of the
\* useQuery options the hook forwards.
QueryOptionsSet == {NoOptions, [retry |-> 1], [enabled |-> FALSE],
                    [staleTime |-> 0]}

\* Variant: the get-one hook itself asks for one retry of a failed request.
useShippingProfileQueryRetry(id, query, options) ==
  Spread([queryFn  |-> [path |-> id, query |-> query],
          queryKey |-> shippingProfileQueryKeys.detail[id][query],
          retry    |-> 1],
         options)

\* useShippingProfile(id, query, options): the options it hands to useQuery.
useShippingProfileQuery(id, query, options) ==
  Spread([queryFn  |-> [path |-> id, query |-> query],
          queryKey |-> shippingProfileQueryKeys.detail[id][query]],
         options)

\* Variant: the list hook leaves the query out of its key.
useShippingProfilesQueryNoKeyQuery(query, options) ==
  Spread([queryFn  |-> [path |-> ListPath, query |-> Undefined],
          queryKey |-> shippingProfileQueryKeys.lists],
         options)

\* useShippingProfiles(query, options): the options it hands to useQuery.
\* The request does not carry the query.
useShippingProfilesQuery(query, options) ==
  Spread([queryFn  |-> [path |-> ListPath, query |-> Undefined],
          queryKey |-> shippingProfileQueryKeys.list[query]],
         options)

useQuery(kind, id, query, options, o) ==
  LET k == o.queryKey
      e == cache[k]
  IN  /\ ops < MaxOps
      /\ ops' = ops + 1
      /\ cache' = [cache EXCEPT ![k] = MountObserver(e, o)]
      /\ last' = [NoLast EXCEPT !.kind = kind, !.id = id, !.key = k,
                                !.query = query, !.reqs = MountRequests(e, o),
                                !.read = e.data, !.options = options]
      /\ UNCHANGED <<server, mutations, loader>>

useShippingProfile(id, query, options) ==
  useQuery("useShippingProfile", id, query, options,
           useShippingProfileQuery(id, query, options))

useShippingProfiles(query, options) ==
  useQuery("useShippingProfiles", "none", query, options,
           useShippingProfilesQuery(query, options))

(***************************************************************************)
(* The shipping-profile route loader.                                      *)
(***************************************************************************)
\* Variant: the loader warms a key no get-one hook without a query reads.
shippingProfileQueryOtherKey(id) ==
  [queryKey |-> shippingProfileQueryKeys.detail[id]["qa"],
   queryFn  |-> [path |-> id, query |-> Undefined]]

\* Variant: the loader's fetch asks for another record than the one it keys.
shippingProfileQueryOtherPath(id) ==
  [queryKey |-> shippingProfileQueryKeys.detail[id][Undefined],
   queryFn  |-> [path |-> CHOOSE x \in Ids : x # id, query |-> Undefined]]

shippingProfileQuery(id) ==
  [queryKey |-> shippingProfileQueryKeys.detail[id][Undefined],
   queryFn  |-> [path |-> id, query |-> Undefined]]

\* queryClient.ensureQueryData(query): cached data is returned as it is;
\* without data the query is fetched (a fetch in flight is joined) and the
\* loader's promise stays pending until that fetch ends.  Every call is a
\* run of its own, whatever the earlier runs are doing.
shippingProfileLoader(id) ==
  LET o == shippingProfileQuery(id)
      k == o.queryKey
      e == cache[k]
      n == Len(loader) + 1
  IN  /\ ops < MaxOps
      /\ ops' = ops + 1
      /\ IF e.data # NoData
           THEN /\ cache' = cache
                /\ loader' = Append(loader,
                               [state |-> "resolved", id |-> id, key |-> k,
                                result |-> e.data])
                /\ last' = [NoLast EXCEPT !.kind = "loaderHit", !.id = id,
                                          !.key = k, !.read = e.data, !.run = n]
           ELSE /\ cache' = [cache EXCEPT ![k] =
                               [e EXCEPT !.status   = "pending",
                                         !.fetching = TRUE,
                                         !.queryFn  = o.queryFn,
                                         !.retry    = IF e.fetching THEN @
                                                                    ELSE Retry(o)]]
                /\ loader' = Append(loader,
                               [state |-> "pending", id |-> id, key |-> k,
                                result |-> NoData])
                /\ last' = [NoLast EXCEPT !.kind = "loaderMiss", !.id = id,
                                          !.key = k, !.run = n,
                                          !.reqs = IF e.fetching THEN 0 ELSE 1]
      /\ UNCHANGED <<server, mutations>>

\* The loader runs whose promise is pending on the fetch of key k.
Waiting(k) ==
  {i \in DOMAIN loader : loader[i].state = "pending" /\ loader[i].key = k}

LoaderWaitsFor(k) == Waiting(k) # {}

\* Every run pending on key k settles with the fetch.
SettleRuns(k, state, result) ==
  [i \in DOMAIN loader |->
     IF i \in Waiting(k)
       THEN [loader[i] EXCEPT !.state = state, !.result = result]
       ELSE loader[i]]

WaitingId(k) ==
  IF LoaderWaitsFor(k) THEN loader[CHOOSE i \in Waiting(k) : TRUE].id ELSE "none"

(***************************************************************************)
(* The end of a GET: the response is stored under the query's key, or the  *)
(* error is.  A failed request is sent again while the query's retry       *)
(* option allows it.                                                       *)
(***************************************************************************)
OnFetchSuccess(e, data) ==
  [e EXCEPT !.status = "success", !.data = data, !.failureCount = 0,
            !.isInvalidated = FALSE, !.fetching = FALSE]

Retries(e) == e.failureCount < e.retry

OnFetchError(e) ==
  IF Retries(e)
    THEN [e EXCEPT !.failureCount = @ + 1]
    ELSE [e EXCEPT !.status = "error", !.fetching = FALSE, !.failureCount = 0]

FetchSucceed(k) ==
  LET e    == cache[k]
      data == Response(e.queryFn)
  IN  /\ e.fetching
      /\ Answerable(e.queryFn)
      /\ cache' = [cache EXCEPT ![k] = OnFetchSuccess(e, data)]
      /\ loader' = SettleRuns(k, "resolved", data)
      /\ last' = [NoLast EXCEPT !.kind = "getOk", !.key = k, !.read = data,
                                !.query = e.queryFn.query,
                                !.id = WaitingId(k),
                                !.status = "200"]
      /\ UNCHANGED <<server, mutations, ops>>

FetchFail(k) ==
  LET e == cache[k]
  IN  /\ e.fetching
      /\ cache' = [cache EXCEPT ![k] = OnFetchError(e)]
      /\ loader' = IF Retries(e) THEN loader
                                 ELSE SettleRuns(k, "rejected", NoData)
      /\ last' = [NoLast EXCEPT !.kind = "getFail", !.key = k,
                                !.query = e.queryFn.query,
                                !.reqs = IF Retries(e) THEN 1 ELSE 0,
                                !.id = WaitingId(k),
                                !.status = IF Answerable(e.queryFn) THEN "500" ELSE "404"]
      /\ UNCHANGED <<server, mutations, ops>>

(***************************************************************************)
(* hooks/api/shipping-profiles: the mutation hooks.  Each hands            *)
(* useMutation the object { mutationFn, onSuccess, ...options }: a key of  *)
(* the caller's options replaces the hook's own entry for that key.        *)
(***************************************************************************)
\* A mutationFn of the caller's own: it sends no request to the API.
CallerMutationFn == [method |-> "caller", path |-> "none"]

\* The options a caller creates a mutation hook with: none, an onSuccess
\* key holding undefined, an onSuccess callback, a retry setting, a
\* mutationFn of the caller's own.
OptionsSet == {NoOptions, [onSuccess |-> UndefinedHandler],
               [onSuccess |-> CallerOnSuccess], [retry |-> 1],
               [mutationFn |-> CallerMutationFn]}

\* options?.onSuccess?.(data, variables, context)
OptionalOnSuccess(options) ==
  IF "onSuccess" \in DOMAIN options THEN options.onSuccess.calls ELSE <<>>

CreateOnSuccess(options) ==
  Handler(<<InvalidateCall(shippingProfileQueryKeys.lists)>>
            \o OptionalOnSuccess(options))

\* Variant: the update invalidates the whole details() prefix.
UpdateOnSuccessAllDetails(id, options) ==
  Handler(<<InvalidateCall(shippingProfileQueryKeys.details),
            InvalidateCall(shippingProfileQueryKeys.lists)>>
            \o OptionalOnSuccess(options))

UpdateOnSuccess(id, options) ==
  Handler(<<InvalidateCall(shippingProfileQueryKeys.detail[id][Undefined]),
            InvalidateCall(shippingProfileQueryKeys.lists)>>
            \o OptionalOnSuccess(options))

DeleteOnSuccess(id, options) ==
  Handler(<<InvalidateCall(shippingProfileQueryKeys.detail[id][Undefined]),
            InvalidateCall(shippingProfileQueryKeys.lists)>>
            \o OptionalOnSuccess(options))

useCreateShippingProfile(options) ==
  Spread([mutationFn |-> [method |-> "POST", path |-> "none"],
          onSuccess  |-> CreateOnSuccess(options)],
         options)

useUpdateShippingProfile(id, options) ==
  Spread([mutationFn |-> [method |-> "POST", path |-> id],
          onSuccess  |-> UpdateOnSuccess(id, options)],
         options)

useDeleteShippingProfile(id, options) ==
  Spread([mutationFn |-> [method |-> "DELETE", path |-> id],
          onSuccess  |-> DeleteOnSuccess(id, options)],
         options)

\* A mutation in flight: the hook it was sent through, its variables, how
\* far its request has come and how often it has failed.
Mutation(kind, id, payload, options) ==
  [kind |-> kind, id |-> id, payload |-> payload, options |-> options,
   raced |-> "none", stage |-> "sent", failureCount |-> 0]

\* What the hook of mutation m handed to useMutation.
Hook(m) ==
  IF m.kind = "create" THEN useCreateShippingProfile(m.options)
  ELSE IF m.kind = "update" THEN useUpdateShippingProfile(m.id, m.options)
  ELSE useDeleteShippingProfile(m.id, m.options)

\* The request the mutationFn sends: none when the function is the caller's.
MutationRequests(m) == IF Hook(m).mutationFn = CallerMutationFn THEN 0 ELSE 1

CallerPassed(options) ==
  IF OptionalOnSuccess(options) # <<>> THEN "caller" ELSE Undefined

InFlight == BagToSet(mutations)

Replace(m, n) == (mutations (-) SetToBag({m})) (+) SetToBag({n})

\* mutate(payload): the mutationFn is called and its promise is pending.
\* Any number of mutations, identical ones too, can be in flight together.
Mutate(m) ==
  /\ ops < MaxOps
  /\ ops' = ops + 1
  /\ mutations' = mutations (+) SetToBag({m})
  /\ last' = [NoLast EXCEPT !.kind = m.kind, !.id = m.id,
                            !.reqs = MutationRequests(m),
                            !.payload = m.payload, !.options = m.options,
                            !.onSuccess = CallerPassed(m.options)]
  /\ UNCHANGED <<server, cache, loader>>

CreateMutate(payload, options) == Mutate(Mutation("create", "none", payload, options))
UpdateMutate(id, payload, options) == Mutate(Mutation("update", id, payload, options))
DeleteMutate(id, options) == Mutate(Mutation("delete", id, "none", options))

\* The server carries out the request of a mutation in flight; the response
\* is on its way back.  A create is stored under an id the server chooses.
\* A mutationFn of the caller's leaves the server alone.
ServerApply(m) ==
  LET fn == Hook(m).mutationFn
  IN  /\ m \in InFlight /\ m.stage = "sent"
      /\ IF fn = CallerMutationFn
           THEN server' = server
           ELSE IF fn.path = "none"
             THEN \E id \in Ids :
                    /\ server[id] = Missing
                    /\ server' = [server EXCEPT ![id] = m.payload]
             ELSE /\ server[fn.path] # Missing
                  /\ server' = [server EXCEPT ![fn.path] =
                                  IF fn.method = "DELETE" THEN Missing
                                                          ELSE m.payload]
      /\ mutations' = Replace(m, [m EXCEPT !.stage = "written"])
      /\ last' = [NoLast EXCEPT !.kind = "server", !.id = m.id,
                                !.payload = m.payload]
      /\ UNCHANGED <<cache, loader, ops>>

\* The mutation's promise settled: useMutation runs the handler it was
\* given, if any.
Settle(m, kind, handler, status, reqs) ==
  LET r == RunCalls(cache, handler)
  IN  /\ cache' = r.cache
      /\ last' = [NoLast EXCEPT !.kind = kind, !.id = m.id,
                                !.reqs = r.reqs + reqs,
                                !.payload = m.payload, !.raced = m.raced,
                                !.onSuccess = CallerPassed(m.options),
                                !.options = m.options,
                                !.calls = CallNames(handler),
                                !.status = status]
      /\ UNCHANGED <<server, loader, ops>>

CreateSucceed(m) ==
  /\ m \in InFlight /\ m.kind = "create" /\ m.stage = "written"
  /\ mutations' = mutations (-) SetToBag({m})
  /\ Settle(m, "createOk", Hook(m).onSuccess.calls, "200", 0)

\* An update of the same id still in flight remembers that this one
\* resolved before it.
UpdateSucceed(m) ==
  /\ m \in InFlight /\ m.kind = "update" /\ m.stage = "written"
  /\ mutations' = BagOfAll(LAMBDA n : IF n.kind = "update" /\ n.id = m.id
                                        THEN [n EXCEPT !.raced = m.payload]
                                        ELSE n,
                           mutations (-) SetToBag({m}))
  /\ Settle(m, "updateOk", Hook(m).onSuccess.calls, "200", 0)

DeleteSucceed(m) ==
  /\ m \in InFlight /\ m.kind = "delete" /\ m.stage = "written"
  /\ mutations' = mutations (-) SetToBag({m})
  /\ Settle(m, "deleteOk", Hook(m).onSuccess.calls, "200", 0)

FailKind(m) ==
  IF m.kind = "create" THEN "createFail"
  ELSE IF m.kind = "update" THEN "updateFail" ELSE "deleteFail"

\* The request failed.  While the retry option of the mutation allows it
\* the mutationFn is called again; otherwise the mutation rejects and no
\* success handler runs.
MutationFail(m) ==
  LET status == IF m.kind # "create" /\ server[m.id] = Missing THEN "404" ELSE "500"
  IN  /\ m \in InFlight /\ m.stage = "sent"
      /\ IF m.failureCount < Retry(Hook(m))
           THEN /\ mutations' = Replace(m, [m EXCEPT !.failureCount = @ + 1])
                /\ Settle(m, "mutationRetry", <<>>, status, MutationRequests(m))
           ELSE /\ mutations' = mutations (-) SetToBag({m})
                /\ Settle(m, FailKind(m), <<>>, status, 0)

\* A step of the hooks leaves the two components as they are.
HooksOnly == UNCHANGED <<store, section>>

Next ==
  \/ \E id \in Ids, q \in QueryArgs, o \in QueryOptionsSet :
        useShippingProfile(id, q, o) /\ HooksOnly
  \/ \E q \in QueryArgs, o \in QueryOptionsSet : useShippingProfiles(q, o) /\ HooksOnly
  \/ \E id \in Ids : shippingProfileLoader(id) /\ HooksOnly
  \/ \E k \in AllKeys : FetchSucceed(k) /\ HooksOnly
  \/ \E k \in AllKeys : FetchFail(k) /\ HooksOnly
  \/ \E p \in Payloads, o \in OptionsSet : CreateMutate(p, o) /\ HooksOnly
  \/ \E id \in Ids, p \in Payloads, o \in OptionsSet : UpdateMutate(id, p, o) /\ HooksOnly
  \/ \E id \in Ids, o \in OptionsSet : DeleteMutate(id, o) /\ HooksOnly
  \/ \E m \in InFlight : ServerApply(m) /\ HooksOnly
  \/ \E m \in InFlight : CreateSucceed(m) /\ HooksOnly
  \/ \E m \in InFlight : UpdateSucceed(m) /\ HooksOnly
  \/ \E m \in InFlight : DeleteSucceed(m) /\ HooksOnly
  \/ \E m \in InFlight : MutationFail(m) /\ HooksOnly

Spec == Init /\ [][Next]_vars

(***************************************************************************)
(* Properties.                                                             *)
(***************************************************************************)
Lists     == shippingProfileQueryKeys.lists
Details   == shippingProfileQueryKeys.details
Detail(x) == shippingProfileQueryKeys.detail[x][Undefined]

UnderLists == {k \in AllKeys : IsPrefix(Lists, k)}

\* Every cached entry among ks carries the invalidated mark.
MarkedStale(ks) == \A k \in ks : HasData(k) => cache[k].isInvalidated

FailKinds == {"createFail", "updateFail", "deleteFail"}

\* C1: after every successful create mutation, whatever options the caller
\* passed, every cached entry under the lists() prefix is marked stale.
C1_CreateMarksListsStale ==
  last.kind = "createOk" => MarkedStale(UnderLists)

\* C2: after every successful update mutation for id x, whatever options the
\* caller passed, the cached entry for detail(x) and every cached entry
\* under the lists() prefix are marked stale.
C2_UpdateMarksDetailAndListsStale ==
  last.kind = "updateOk" => MarkedStale({Detail(last.id)} \cup UnderLists)

\* C3: after every successful delete mutation for id x, whatever options the
\* caller passed, the cached entry for detail(x) and every cached entry
\* under the lists() prefix are marked stale.
C3_DeleteMarksDetailAndListsStale ==
  last.kind = "deleteOk" => MarkedStale({Detail(last.id)} \cup UnderLists)

SameMark(k) == cache'[k].isInvalidated = cache[k].isInvalidated

\* C4: invalidation is confined to the affected keys.  A successful update
\* or delete for id x does not mark any detail entry of another id y (with
\* or without a query); a successful create marks no detail entry; a failed
\* mutation marks no entry at all.
C4_InvalidationConfined ==
  [][ /\ last'.kind \in {"updateOk", "deleteOk"} =>
           \A y \in Ids \ {last'.id}, q \in QueryArgs :
              SameMark(shippingProfileQueryKeys.detail[y][q])
      /\ last'.kind = "createOk" => \A k \in DetailKeys : SameMark(k)
      /\ last'.kind \in FailKinds => \A k \in AllKeys : SameMark(k)
    ]_vars

\* C4 happens: the hook's own success handler ran for an update of x while a
\* fresh detail entry of another id is cached, and it is still fresh.
C4_Witness ==
  /\ last.kind = "updateOk"
  /\ Len(last.calls) >= 2
  /\ \E y \in Ids \ {last.id} : HasData(Detail(y)) /\ ~cache[Detail(y)].isInvalidated

HookKinds == {"useShippingProfile", "useShippingProfiles"}

\* C5 as stated: lists() is a strict (proper) array-prefix of the key
\* useShippingProfiles registers for every q, q undefined included, and
\* details() is a strict array-prefix of the key useShippingProfile
\* registers for every id and q.
C5_StrictPrefixForEveryQuery ==
  /\ last.kind = "useShippingProfiles" => IsProperPrefix(Lists, last.key)
  /\ last.kind = "useShippingProfile" => IsProperPrefix(Details, last.key)

\* C5 amended: lists() is an array-prefix of the key useShippingProfiles(q)
\* registers, strict exactly when q is defined (list(undefined) equals
\* lists()); details() is a strict array-prefix of the key
\* useShippingProfile(id, q) registers; every registered key is marked by
\* prefix invalidation of lists() / details().
C5_PrefixStrictIffQueryDefined ==
  /\ last.kind = "useShippingProfiles" =>
       /\ IsPrefix(Lists, last.key)
       /\ IsProperPrefix(Lists, last.key) <=> last.query # Undefined
       /\ invalidateQueries(cache, Lists)[last.key].isInvalidated
  /\ last.kind = "useShippingProfile" =>
       /\ IsProperPrefix(Details, last.key)
       /\ invalidateQueries(cache, Details)[last.key].isInvalidated

\* C5 happens: the list hook was mounted without a query and its key is
\* lists() itself.
C5_Witness ==
  /\ last.kind = "useShippingProfiles"
  /\ last.query = Undefined
  /\ last.key = Lists
  /\ cache[last.key].status # "absent"

\* C6: the loader is fetch-or-reuse.  With data cached under detail(id) a
\* run issues no request and resolves with the cached value; without, one
\* GET for that id is in flight for detail(id) while the run is pending
\* (issued by the loader, and then never retried, unless a first fetch of
\* that key is already in flight), the cache holds the fetched value under
\* detail(id) when the run resolves, and the failure of the fetch rejects
\* it.  Runs settle independently of one another.
C6_LoaderFetchOrReuse ==
  [][ /\ last'.kind = "loaderHit" =>
           LET k == Detail(last'.id)
               r == loader'[last'.run]
           IN  /\ HasData(k)
               /\ last'.reqs = 0
               /\ cache' = cache
               /\ r.id = last'.id
               /\ r.state = "resolved"
               /\ r.result = cache[k].data
      /\ last'.kind = "loaderMiss" =>
           LET k == Detail(last'.id)
               r == loader'[last'.run]
           IN  /\ ~HasData(k)
               /\ r.id = last'.id
               /\ r.state = "pending"
               /\ cache'[k].fetching
               /\ cache'[k].queryFn = [path |-> last'.id, query |-> Undefined]
               /\ last'.reqs = IF cache[k].fetching THEN 0 ELSE 1
               /\ last'.reqs = 1 => ~Retries(cache'[k])
      /\ \A i \in DOMAIN loader :
           IF loader[i].state = "pending"
             THEN LET k == Detail(loader[i].id)
                  IN  /\ cache[k].fetching
                      /\ cache[k].queryFn.path = loader[i].id
                      /\ IF last'.key = k /\ last'.kind = "getOk"
                           THEN /\ loader'[i].state = "resolved"
                                /\ cache'[k].data # NoData
                                /\ cache'[k].data.id = loader[i].id
                                /\ loader'[i].result = cache'[k].data
                           ELSE IF last'.key = k /\ last'.kind = "getFail"
                                   /\ ~cache'[k].fetching
                           THEN /\ loader'[i].state = "rejected"
                                /\ cache'[k].data = NoData
                           ELSE /\ loader'[i] = loader[i]
                                /\ (last'.key = k /\ last'.kind # "getFail")
                                     => last'.reqs = 0
             ELSE loader'[i] = loader[i]
    ]_vars

\* C6 happens: two runs were pending together, on different ids; one found
\* no data, fetched, and has resolved with the value now cached under
\* detail(id), the other was rejected.
C6_Witness ==
  \E i, j \in DOMAIN loader :
     /\ loader[i].state = "resolved"
     /\ loader[i].result = cache[Detail(loader[i].id)].data
     /\ loader[i].result # NoData
     /\ loader[j].state = "rejected"
     /\ last.kind = "getOk"
     /\ last.id = loader[i].id

\* The entry run i of the loader resolved with is still cached and fresh.
LoaderEntryFresh(i) ==
  /\ loader[i].state = "resolved"
  /\ HasData(loader[i].key)
  /\ ~cache[loader[i].key].isInvalidated

HookReadsLoaderEntry(i) ==
  /\ last.key = loader[i].key
  /\ last.reqs = 0
  /\ last.read = cache[loader[i].key].data

\* C7 as stated: for every id and every query argument (given or omitted),
\* useShippingProfile(id, query) mounted after the loader resolved for id
\* finds the entry the loader cached and issues no request.  Stated for the
\* hook mounted with no options.
C7_HookReadsLoaderEntryAnyQuery ==
  \A i \in DOMAIN loader :
     (last.kind = "useShippingProfile" /\ last.id = loader[i].id
        /\ last.options = NoOptions /\ LoaderEntryFresh(i))
       => HookReadsLoaderEntry(i)

\* C7 amended: when useShippingProfile(id, query, options) is mounted after
\* the loader resolved for id, the loader's entry being still cached and not
\* invalidated:
\*  - without a query the hook reads detail(id), the key the loader warmed,
\*    and finds the loader's entry under it; it issues no request, except
\*    that an enabled hook given staleTime 0 refetches the entry (one GET,
\*    none if a fetch of the key is already in flight);
\*  - with a query the hook reads detail(id, query), a key the loader does
\*    not warm: what it reads is that key's own entry, never the loader's,
\*    and it issues one GET of its own when it is enabled, the key holds no
\*    data (or data that is invalidated, or any data under staleTime 0) and
\*    no fetch of the key is in flight, and no request otherwise.
C7_HookWithoutQueryReadsLoaderEntry ==
  [][ \A i \in DOMAIN loader :
        (last'.kind = "useShippingProfile" /\ last'.id = loader[i].id
           /\ LoaderEntryFresh(i)) =>
          LET k == last'.key
              e == cache[k]
              o == last'.options
              staleTime0 == IF "staleTime" \in DOMAIN o THEN o.staleTime = 0
                                                        ELSE FALSE
              enabled    == IF "enabled" \in DOMAIN o THEN o.enabled ELSE TRUE
          IN  IF last'.query = Undefined
                THEN /\ k = loader[i].key
                     /\ last'.read = cache[loader[i].key].data
                     /\ last'.read # NoData
                     /\ last'.read.id = loader[i].id
                     /\ last'.reqs = IF enabled /\ staleTime0 /\ ~e.fetching
                                       THEN 1 ELSE 0
                ELSE /\ k # loader[i].key
                     /\ k = shippingProfileQueryKeys.detail[last'.id][last'.query]
                     /\ last'.read = e.data
                     /\ last'.reqs =
                          IF /\ enabled
                             /\ (e.data = NoData \/ e.isInvalidated \/ staleTime0)
                             /\ ~e.fetching
                            THEN 1 ELSE 0
    ]_vars

\* C7 happens: the hook was mounted without a query on the id the loader
\* resolved for, and read the loader's entry without a request.
C7_Witness ==
  \E i \in DOMAIN loader :
     /\ last.kind = "useShippingProfile"
     /\ last.id = loader[i].id
     /\ last.query = Undefined
     /\ LoaderEntryFresh(i)
     /\ last.read = loader[i].result
     /\ last.reqs = 0

\* A failed mutation rejects, runs no success handler, touches no cache
\* entry and no record of the server, and is not sent again.
FailedMutationRejects ==
  last'.kind \in FailKinds =>
    /\ cache' = cache
    /\ server' = server
    /\ last'.calls = <<>>
    /\ last'.reqs = 0
    /\ mutations' \sqsubseteq mutations
    /\ BagCardinality(mutations') = BagCardinality(mutations) - 1

C9_ConcurrentUpdatesMarkStale ==
  (last.kind = "updateOk" /\ last.raced # "none")
    => MarkedStale(UnderLists \cup {Detail(last.id)})

\* C10: the entry cached under list(q) is the response to a GET that
\* carried q, so no two list keys hold the response to the same request.
C10_ListRequestCarriesQuery ==
  /\ \A q \in QueryArgs :
       HasData(shippingProfileQueryKeys.list[q]) =>
         cache[shippingProfileQueryKeys.list[q]].data.query = q
  /\ \A q1, q2 \in QueryArgs :
       (q1 # q2 /\ HasData(shippingProfileQueryKeys.list[q1])
                /\ HasData(shippingProfileQueryKeys.list[q2])) =>
         cache[shippingProfileQueryKeys.list[q1]].data.query
           # cache[shippingProfileQueryKeys.list[q2]].data.query

OkKinds == {"createOk", "updateOk", "deleteOk"}

\* The keys the success handler of the mutation just settled is to
\* invalidate: everything under lists(), and for an update or delete of x
\* everything under detail(x).
Affected ==
  UnderLists \cup
    (IF last.kind \in {"updateOk", "deleteOk"}
       THEN {k \in AllKeys : IsPrefix(Detail(last.id), k)} ELSE {})

\* C11: on a successful create, update or delete the invalidation only marks
\* entries stale and starts background refetches, which are still in flight
\* when the mutation has settled; and when the caller passed an onSuccess
\* callback, the invalidateQueries calls are issued before it runs.
C11_InvalidateThenCallerOnSuccess ==
  last.kind \in OkKinds =>
    /\ \A k \in Affected :
         (cache[k].active /\ cache[k].isInvalidated) => cache[k].fetching
    /\ last.onSuccess # Undefined =>
         \E i \in 1..Len(last.calls) :
            /\ last.calls[i] = "options.onSuccess"
            /\ \E j \in 1..(i - 1) : last.calls[j] = "invalidateQueries"
            /\ \A j \in 1..Len(last.calls) :
                  last.calls[j] = "invalidateQueries" => j < i

(***************************************************************************)
(* ProductVariantSection: the delete action of a variant row.  Each click  *)
(* runs handleDelete(variant.id, variant.title): it opens the confirmation *)
(* prompt, and once the prompt has resolved it either returns or sends the *)
(* delete-variant mutation.                                                *)
(***************************************************************************)
\* Bound on the number of delete clicks of a run.
MaxClicks == 3

Variants == {"variant_1", "variant_2", "variant_3"}

\* getActions: the id the delete action of a row hands to handleDelete.
getActionsDeleteId(variant) == variant

\* Variant: the mutation is sent whatever the prompt resolved with.
handleDeleteAlways(res, id) == <<[variantId |-> id]>>

\* handleDelete after `await prompt(...)`: the mutations it sends.
handleDelete(res, id) ==
  IF ~res THEN <<>> ELSE <<[variantId |-> id]>>

\* onClick of the delete action of the row of `variant`.
ClickDelete(variant) ==
  /\ Len(section) < MaxClicks
  /\ section' = Append(section,
                  [clicked |-> variant, id |-> getActionsDeleteId(variant),
                   state |-> "prompting", confirmed |-> "pending",
                   mutated |-> <<>>])
  /\ UNCHANGED <<hookVars, store>>

\* The prompt of call i resolved with res.
PromptResolve(i, res) ==
  LET c    == section[i]
      sent == handleDelete(res, c.id)
  IN  /\ c.state = "prompting"
      /\ section' = [section EXCEPT ![i] =
                       [c EXCEPT !.confirmed = IF res THEN "yes" ELSE "no",
                                 !.mutated   = @ \o sent,
                                 !.state     = IF sent = <<>> THEN "returned"
                                                              ELSE "mutating"]]
      /\ UNCHANGED <<hookVars, store>>

\* The delete-variant mutation of call i settled.
DeleteVariantSettle(i, ok) ==
  LET c == section[i]
  IN  /\ c.state = "mutating"
      /\ section' = [section EXCEPT ![i] =
                       [c EXCEPT !.state = IF ok THEN "done" ELSE "rejected"]]
      /\ UNCHANGED <<hookVars, store>>

SectionNext ==
  \/ \E v \in Variants : ClickDelete(v)
  \/ \E i \in DOMAIN section, res \in BOOLEAN : PromptResolve(i, res)
  \/ \E i \in DOMAIN section, ok \in BOOLEAN : DeleteVariantSettle(i, ok)

SectionSpec == Init /\ [][SectionNext]_vars

\* C13: a delete-variant mutation is sent only after the prompt of that call
\* resolved truthy: none while the prompt is open, none when it resolved
\* falsy, and exactly one, carrying the id of the variant whose delete
\* action was clicked, when it resolved truthy.
C13_DeleteOnlyAfterConfirm ==
  \A i \in DOMAIN section :
     section[i].mutated =
       IF section[i].confirmed = "yes"
         THEN <<[variantId |-> section[i].clicked]>> ELSE <<>>

\* C13 happens: one prompt was confirmed and its mutation sent, another was
\* declined.
C13_Witness ==
  \E i, j \in DOMAIN section :
     /\ section[i].confirmed = "yes"
     /\ section[i].mutated = <<[variantId |-> section[i].clicked]>>
     /\ section[j].confirmed = "no"
     /\ section[j].state = "returned"

(***************************************************************************)
(* EditStoreForm: the logo field (onUploaded) and the submit handler.      *)
(***************************************************************************)
\* Bound on the number of files one onUploaded call hands over.
MaxFiles == 2

SUPPORTED_FORMATS ==
  {"image/jpeg", "image/png", "image/gif", "image/webp", "image/heic",
   "image/svg+xml"}

\* Files a user can pick or drop.
Files == {[name |-> "logo.png", type |-> "image/png"],
          [name |-> "logo.svg", type |-> "image/svg+xml"],
          [name |-> "terms.pdf", type |-> "application/pdf"]}

FileLists == UNION {[1..n -> Files] : n \in 0..MaxFiles}

\* What the seller's photo can be, and the url an uploaded file can carry:
\* a url, or the empty string.
SellerPhotos == {Undefined, "old.png"}
Urls         == {"u1.png", ""}

\* JavaScript truthiness of a string or undefined.
Truthy(x) == x \notin {Undefined, ""}

\* hasInvalidFiles: some file of the list has a type outside SUPPORTED_FORMATS.
hasInvalidFiles(fileList) ==
  \E i \in DOMAIN fileList : fileList[i].type \notin SUPPORTED_FORMATS

\* { ...files[0], isThumbnail: false }: of an empty list files[0] is
\* undefined and the spread adds nothing.
FirstAsMedia(files) ==
  IF files = <<>>
    THEN [name |-> Undefined, type |-> Undefined, isThumbnail |-> FALSE]
    ELSE [name |-> files[1].name, type |-> files[1].type, isThumbnail |-> FALSE]

\* onUploaded(files), called by the file field of the mounted form.
onUploaded(files) ==
  /\ store.mounted
  /\ store' = IF hasInvalidFiles(files)
                THEN [store EXCEPT !.mediaError = TRUE,
                                   !.step = [name |-> "onUploaded", files |-> files,
                                             prev |-> store.media]]
                ELSE [store EXCEPT !.mediaError = FALSE,
                                   !.media = <<FirstAsMedia(files)>>,
                                   !.step = [name |-> "onUploaded", files |-> files,
                                             prev |-> store.media]]
  /\ UNCHANGED <<hookVars, section>>

\* uploadedMedia[0]?.url || seller.photo || ''
PhotoToSend(uploadedMedia, photo) ==
  IF uploadedMedia # <<>> /\ Truthy(uploadedMedia[1].url)
    THEN uploadedMedia[1].url
    ELSE IF Truthy(photo) THEN photo ELSE ""

\* Bound on the number of times the handler is run by a submit.
MaxSubmits == 2

OtherStep(name) == [name |-> name, files |-> <<>>, prev |-> <<>>]

\* What a rejected upload throws and what a rejected mutation hands to
\* onError: a fetch error, which carries a message.
UploadErrors   == {[instanceofError |-> TRUE, message |-> "upload failed"]}
MutationErrors == {[instanceofError |-> TRUE, message |-> "update failed"]}
NothingCaught  == [instanceofError |-> FALSE, message |-> "none"]

\* What r.files.map(...) throws when the response r has no files.
FilesUndefined == [instanceofError |-> TRUE, message |-> "r.files is undefined"]

\* What a fulfilled uploadFilesQuery(values.media) can resolve with: a body
\* without files, or a list of uploaded files, at most one per file sent,
\* each with its url.
uploadFilesQuery(media) ==
  {[defined |-> FALSE, files |-> <<>>]} \cup
  {[defined |-> TRUE, files |-> fs] :
     fs \in UNION {[1..n -> [url : Urls]] : n \in 0..Len(media)}}

ErrorToast(message) == [kind |-> "error", message |-> message]
SuccessToast        == [kind |-> "success", message |-> "Store updated"]

\* catch (error) { if (error instanceof Error) toast.error(error.message) }
CatchUpload(error) ==
  IF error.instanceofError THEN <<ErrorToast(error.message)>> ELSE <<>>

\* A run of the submit handler that has just started on the given values.
NewRun(values) ==
  [values |-> values, pc |-> "uploading", upload |-> "none",
   caught |-> NothingCaught, uploadedMedia |-> <<>>, toasts |-> <<>>,
   sent |-> <<>>, result |-> "none", handleSuccess |-> 0]

\* await mutateAsync({..., photo}, {onSuccess, onError}): the mutation is
\* sent and the run waits for it.
SendUpdate(run, photo) ==
  [run EXCEPT !.sent = Append(@, PhotoToSend(run.uploadedMedia, photo)),
              !.pc   = "mutating"]

\* Whether the form holds a media error once form.handleSubmit has run the
\* resolver.  The form library is not part of this source: it either puts
\* the resolver's errors in place of the form's, or leaves an error set by
\* form.setError standing beside them.  Values the resolver rejects can carry
\* a media error of the resolver's own.
SubmitErrors(valid) == IF valid THEN {FALSE, store.mediaError} ELSE BOOLEAN

\* The form is submitted: form.handleSubmit runs the resolver.  With values
\* the resolver rejects the handler is not run.  Otherwise a run of the
\* handler starts, whatever earlier runs are doing: with media it sends the
\* upload and waits for it, without it goes on to the update mutation.
SubmitForm(valid, mediaError) ==
  /\ store.mounted
  /\ IF valid
       THEN LET run == NewRun(store.media)
                n   == Len(store.runs) + 1
            IN  /\ Len(store.runs) < MaxSubmits
                /\ store' = [store EXCEPT
                     !.mediaError = mediaError,
                     !.step = OtherStep("submit"),
                     !.runs = Append(@, IF Len(run.values) > 0
                                          THEN run
                                          ELSE SendUpdate(run, store.photo)),
                     !.latest = IF Len(run.values) > 0 THEN @ ELSE n]
       ELSE store' = [store EXCEPT !.mediaError = mediaError,
                                   !.step = OtherStep("submit")]
  /\ UNCHANGED <<hookVars, section>>

\* The upload of run i ends: rejected with error, or fulfilled with r, whose
\* files are mapped to uploadedMedia; a body without files makes the map
\* throw.  What is thrown is caught, and toasted when it is an Error.
\* Either way the run goes on and calls mutateAsync, which makes its call
\* the latest one of the form's mutation.
UploadSettle(i, ok, r, error) ==
  LET run    == store.runs[i]
      thrown == IF ~ok THEN error
                ELSE IF ~r.defined THEN FilesUndefined ELSE NothingCaught
      failed == thrown # NothingCaught
      uploaded == IF failed THEN <<>>
                  ELSE [n \in DOMAIN r.files |->
                          [url |-> r.files[n].url, isThumbnail |-> FALSE]]
      caught == [run EXCEPT !.upload = IF failed THEN "failed" ELSE "ok",
                            !.caught = thrown,
                            !.uploadedMedia = uploaded,
                            !.toasts = IF failed THEN @ \o CatchUpload(thrown)
                                                 ELSE @]
  IN  /\ run.pc = "uploading"
      /\ store' = [store EXCEPT !.runs[i] = SendUpdate(caught, store.photo),
                                !.latest = i,
                                !.step = OtherStep("upload")]
      /\ UNCHANGED <<hookVars, section>>

\* Whether the onSuccess / onError passed to mutateAsync with call i run
\* when its mutation settles.  useUpdateMe is not part of this source: a
\* useMutation hook runs them only while the component is mounted and only
\* for the call made last (a later call takes the mutation observer away
\* from the earlier mutation); a hook that settles each call by itself runs
\* them for every call.
CallbacksRun(i) == {store.mounted /\ store.latest = i, TRUE}

\* The update mutation of run i settles: if its callbacks run, onSuccess
\* toasts and calls handleSuccess, onError toasts the error.
UpdateMeSettle(i, ok, error, fire) ==
  LET run == store.runs[i]
  IN  /\ run.pc = "mutating"
      /\ store' = [store EXCEPT
                     !.runs[i] = [run EXCEPT
                        !.result = IF ok THEN "ok" ELSE "failed",
                        !.toasts = IF ~fire THEN @
                                   ELSE Append(@, IF ok THEN SuccessToast
                                                        ELSE ErrorToast(error.message)),
                        !.handleSuccess = IF fire /\ ok THEN @ + 1 ELSE @,
                        !.pc = "done"],
                     !.step = OtherStep("settle")]
      /\ UNCHANGED <<hookVars, section>>

\* The drawer holding the form is closed (by the user, or by handleSuccess):
\* the component unmounts.  Runs of the handler under way go on.
Unmount ==
  /\ store.mounted
  /\ store' = [store EXCEPT !.mounted = FALSE, !.step = OtherStep("unmount")]
  /\ UNCHANGED <<hookVars, section>>

StoreInit ==
  /\ InitHooks
  /\ section = NoCalls
  /\ store \in {MountedForm(p) : p \in SellerPhotos}

StoreNext ==
  \/ \E files \in FileLists : onUploaded(files)
  \/ \E valid \in BOOLEAN : \E mediaError \in SubmitErrors(valid) :
       SubmitForm(valid, mediaError)
  \/ \E i \in DOMAIN store.runs :
       \E ok \in BOOLEAN, r \in uploadFilesQuery(store.runs[i].values),
          error \in UploadErrors : UploadSettle(i, ok, r, error)
  \/ \E i \in DOMAIN store.runs, ok \in BOOLEAN, error \in MutationErrors :
       \E fire \in CallbacksRun(i) : UpdateMeSettle(i, ok, error, fire)
  \/ Unmount

StoreSpec == StoreInit /\ [][StoreNext]_vars

\* What seller.photo || '' evaluates to.
ExistingPhoto == IF Truthy(store.photo) THEN store.photo ELSE ""

\* C12: in every run of the submit handler a failed logo upload does not
\* abort the submission: it is caught and toasted and the update mutation
\* is still sent, once per run, with photo the seller's photo or '' if there
\* is none; after a successful upload photo is the url of the first uploaded
\* file; a failed update mutation toasts its error and never calls
\* handleSuccess.
C12_SubmitSurvivesUploadFailure ==
  \A i \in DOMAIN store.runs :
     LET run == store.runs[i]
     IN  /\ Len(run.sent) = IF run.pc \in {"mutating", "done"} THEN 1 ELSE 0
         /\ run.upload = "failed" =>
              /\ run.pc \in {"mutating", "done"}
              /\ run.toasts # <<>>
              /\ run.toasts[1] = ErrorToast(run.caught.message)
              /\ run.sent = <<ExistingPhoto>>
         /\ (run.upload = "ok" /\ run.uploadedMedia # <<>>) =>
              run.sent = <<run.uploadedMedia[1].url>>
         /\ run.result = "failed" =>
              /\ run.toasts # <<>>
              /\ run.toasts[Len(run.toasts)] = ErrorToast("update failed")
              /\ run.handleSuccess = 0
         /\ run.handleSuccess > 0 => run.result = "ok"

\* C14: after any sequence of onUploaded calls media holds at most one item
\* and that item is a file of a supported type; a call with an unsupported
\* file leaves media unchanged and sets the media error, a call whose files
\* are all supported clears the error and replaces media with exactly the
\* first file of the list.
C14_MediaAtMostOneSupportedFile ==
  /\ Len(store.media) <= 1
  /\ \A i \in DOMAIN store.media :
       /\ store.media[i].type \in SUPPORTED_FORMATS
       /\ \E f \in Files : f.name = store.media[i].name /\ f.type = store.media[i].type
  /\ store.step.name = "onUploaded" =>
       IF \E i \in DOMAIN store.step.files :
             store.step.files[i].type \notin SUPPORTED_FORMATS
         THEN store.media = store.step.prev /\ store.mediaError
         ELSE /\ ~store.mediaError
              /\ Len(store.media) = 1
              /\ store.step.files # <<>>
              /\ store.media[1].name = store.step.files[1].name
              /\ store.media[1].type = store.step.files[1].type
=============================================================================
